---------------------------- MODULE Spec2Model ----------------------------
(***************************************************************************)
(* PyPDFFill: the field-mapping layer of src/pypdffill/mappers.py.         *)
(*                                                                         *)
(* A PdfForm holds a list of FieldMapper descriptors.  generate_model      *)
(* synthesizes (once) a record type from them, model_validate binds an     *)
(* input mapping against that type, generate_pdf serializes a bound        *)
(* instance by alias, hands it to the PDF writer and writes the output.    *)
(*                                                                         *)
(* Python values are tagged records [t, v]; strings are sequences of       *)
(* one-character strings so that str() and len() are computed, not         *)
(* assumed.                                                                *)
(***************************************************************************)
EXTENDS Integers, Sequences, FiniteSets, TLC

VARIABLES
    fields,      \* PdfForm.fields: sequence of FieldMapper records
    form_model,  \* PdfForm._form_model: NoModel or the synthesized type
    synthCount,  \* number of create_model calls made for this PdfForm
    op,          \* the operation that ran last
    obj,         \* the argument of the last model_validate call
    inst,        \* the value the last model_validate call returned
    raised,      \* the exception the last operation propagated
    outFile      \* the file at generate_pdf's output_path

vars == <<fields, form_model, synthCount, op, obj, inst, raised, outFile>>

----------------------------------------------------------------------------
(* Bounds of the model *)

MaxFields == 2      \* longest PdfForm.fields list drawn by Init
MaxLen == 3         \* the max_length configured on bounded text fields

----------------------------------------------------------------------------
(* Python values *)

None == [t |-> "None", v |-> <<>>]
PyBool(b) == [t |-> "bool", v |-> b]
PyInt(n) == [t |-> "int", v |-> n]
\* the float i + d/10, 0 <= d <= 9, i >= 0
PyFloat(i, d) == [t |-> "float", v |-> <<i, d>>]
PyString(s) == [t |-> "str", v |-> s]

IsStr(x) == x.t = "str"

DigitChar == <<"0", "1", "2", "3", "4", "5", "6", "7", "8", "9">>

RECURSIVE Digits(_)
Digits(n) ==
    IF n < 10 THEN <<DigitChar[n + 1]>>
    ELSE Digits(n \div 10) \o <<DigitChar[(n % 10) + 1]>>

\* str(n) for an int
IntToStr(n) == IF n < 0 THEN <<"-">> \o Digits(-n) ELSE Digits(n)

\* str(x) for a float with one decimal digit (the shortest round-trip repr)
FloatToStr(p) == IntToStr(p[1]) \o <<".">> \o <<DigitChar[p[2] + 1]>>

\* Python's str(value) for a value that is not None
str(value) ==
    CASE value.t = "str" -> value.v
      [] value.t = "int" -> IntToStr(value.v)
      [] value.t = "float" -> FloatToStr(value.v)
      [] value.t = "bool" ->
            IF value.v THEN <<"T", "r", "u", "e">>
            ELSE <<"F", "a", "l", "s", "e">>
      [] OTHER -> <<"N", "o", "n", "e">>

any_to_str_identity(value) ==
    IF value = None THEN PyString(<<>>) ELSE value

\* mappers.py any_to_str
any_to_str(value) ==
    IF value = None THEN PyString(<<>>) ELSE PyString(str(value))

----------------------------------------------------------------------------
(* FieldMapper *)

_VALID_TYPES == {"text", "checkbox", "radio", "dropdown", "signature"}

NoExc == [type |-> "None"]

\* FieldMapper(**args): pydantic validates the declared field types; the
\* class has no validator relating default_value to widget_type.
FieldMapperInit(args) ==
    IF /\ args.widget_type \in _VALID_TYPES
       /\ args.max_length.t \in {"None", "int"}
       /\ args.default_value.t \in {"None", "str", "bool"}
    THEN [ok |-> TRUE,
          value |-> [field_name |-> args.field_name,
                     widget_type |-> args.widget_type,
                     max_length |-> args.max_length,
                     widget_name |-> args.widget_name,
                     default_value |-> args.default_value]]
    ELSE [ok |-> FALSE, exc |-> [type |-> "ValidationError"]]

FieldSpec(self, type, withMax, serAlias) ==
    [ok |-> TRUE,
     type |-> type,
     alias |-> <<self.field_name, self.widget_name>>,
     serialization_alias |-> serAlias,
     max_length |-> IF withMax THEN self.max_length ELSE None,
     default |-> self.default_value]

CheckboxTypeError ==
    [ok |-> FALSE,
     exc |-> [type |-> "TypeError",
              msg |-> <<"Checkbox default value must be a boolean.">>]]

WidgetNotImplemented(self) ==
    [ok |-> FALSE,
     exc |-> [type |-> "NotImplementedError",
              msg |-> <<"Widget type ", self.widget_type,
                        " not implemented.">>]]

get_field_no_max_length(self) ==
    CASE self.widget_type = "text" ->
            FieldSpec(self, "str", FALSE, self.widget_name)
      [] self.widget_type = "checkbox" ->
            IF IsStr(self.default_value) THEN CheckboxTypeError
            ELSE FieldSpec(self, "bool", FALSE, self.widget_name)
      [] OTHER -> WidgetNotImplemented(self)

get_field_serializes_by_name(self) ==
    CASE self.widget_type = "text" ->
            FieldSpec(self, "str", self.max_length # None, self.field_name)
      [] self.widget_type = "checkbox" ->
            IF IsStr(self.default_value) THEN CheckboxTypeError
            ELSE FieldSpec(self, "bool", FALSE, self.field_name)
      [] OTHER -> WidgetNotImplemented(self)

get_field_no_default_check(self) ==
    CASE self.widget_type = "text" ->
            FieldSpec(self, "str", self.max_length # None, self.widget_name)
      [] self.widget_type = "checkbox" ->
            FieldSpec(self, "bool", FALSE, self.widget_name)
      [] OTHER -> WidgetNotImplemented(self)

get_field_accepts_any_widget(self) ==
    CASE self.widget_type = "checkbox" ->
            IF IsStr(self.default_value) THEN CheckboxTypeError
            ELSE FieldSpec(self, "bool", FALSE, self.widget_name)
      [] OTHER ->
            FieldSpec(self, "str", self.max_length # None, self.widget_name)

\* FieldMapper.get_field: the (type, Field(...)) pair, or the exception
get_field(self) ==
    CASE self.widget_type = "text" ->
            FieldSpec(self, "str", self.max_length # None, self.widget_name)
      [] self.widget_type = "checkbox" ->
            IF IsStr(self.default_value) THEN CheckboxTypeError
            ELSE FieldSpec(self, "bool", FALSE, self.widget_name)
      [] OTHER -> WidgetNotImplemented(self)

----------------------------------------------------------------------------
(* PdfForm: schema synthesis *)

FormName == "TestForm"

NoModel == [kind |-> "None"]

\* d[k] = v on a Python dict kept as a sequence of items in insertion order
DictSet(d, k, v) ==
    IF \E i \in DOMAIN d : d[i].key = k
    THEN [i \in DOMAIN d |->
            IF d[i].key = k THEN [key |-> k, value |-> v] ELSE d[i]]
    ELSE Append(d, [key |-> k, value |-> v])

RECURSIVE FieldsDictUpTo(_, _)
FieldsDictUpTo(fs, n) ==
    IF n = 0 THEN <<>>
    ELSE DictSet(FieldsDictUpTo(fs, n - 1), fs[n].field_name,
                 get_field(fs[n]))

RECURSIVE FieldsDictByWidgetUpTo(_, _)
FieldsDictByWidgetUpTo(fs, n) ==
    IF n = 0 THEN <<>>
    ELSE DictSet(FieldsDictByWidgetUpTo(fs, n - 1), fs[n].widget_name,
                 get_field(fs[n]))

FieldsDict_keyed_by_widget_name(fs) == FieldsDictByWidgetUpTo(fs, Len(fs))

\* {field.field_name: field.get_field() for field in self.fields}
FieldsDict(fs) == FieldsDictUpTo(fs, Len(fs))

\* the first descriptor whose get_field raises (0 when none does)
FirstRaising(fs) ==
    IF \E i \in DOMAIN fs : ~get_field(fs[i]).ok
    THEN CHOOSE i \in DOMAIN fs :
            /\ ~get_field(fs[i]).ok
            /\ \A j \in 1..(i - 1) : get_field(fs[j]).ok
    ELSE 0

Validators_none(fs) == {}

\* the field names any_to_str is registered for as a "before" validator
Validators(fs) ==
    {fs[i].field_name : i \in {j \in DOMAIN fs : fs[j].widget_type = "text"}}

\* create_model(self.name, __validators__=validators, **fields)
create_model(name, validators, fieldsDict, id) ==
    [kind |-> "type",
     name |-> name,
     id |-> id,
     validators |-> validators,
     fields |-> [i \in DOMAIN fieldsDict |->
                    [name |-> fieldsDict[i].key,
                     type |-> fieldsDict[i].value.type,
                     alias |-> fieldsDict[i].value.alias,
                     serialization_alias |->
                        fieldsDict[i].value.serialization_alias,
                     max_length |-> fieldsDict[i].value.max_length,
                     default |-> fieldsDict[i].value.default]]]

\* one synthesis from the descriptors as they are now
Synthesize(fs, count) ==
    IF FirstRaising(fs) # 0
    THEN [form_model |-> NoModel,
          synthCount |-> count,
          raised |-> get_field(fs[FirstRaising(fs)]).exc]
    ELSE [form_model |->
             create_model(FormName, Validators(fs), FieldsDict(fs), count + 1),
          synthCount |-> count + 1,
          raised |-> NoExc]

generate_model_always_rebuilds(fs, fm, count) == Synthesize(fs, count)

\* PdfForm.generate_model: the new _form_model, the create_model count and
\* the exception raised; the cached type is returned when there is one
generate_model(fs, fm, count) ==
    IF fm.kind = "None" THEN Synthesize(fs, count)
    ELSE [form_model |-> fm, synthCount |-> count, raised |-> NoExc]

\* PdfForm.form
form(fs, fm, count) ==
    IF fm.kind = "None" THEN generate_model(fs, fm, count)
    ELSE [form_model |-> fm, synthCount |-> count, raised |-> NoExc]

----------------------------------------------------------------------------
(* Binding: what the synthesized type's model_validate does with a mapping *)

NoInst == [kind |-> "None"]

Lower(c) == CASE c = "T" -> "t" [] c = "F" -> "f" [] OTHER -> c

LowerStr(s) == [i \in DOMAIN s |-> Lower(s[i])]

TrueStrings ==
    {<<"1">>, <<"t">>, <<"y">>, <<"o", "n">>, <<"y", "e", "s">>,
     <<"t", "r", "u", "e">>}

FalseStrings ==
    {<<"0">>, <<"f">>, <<"n">>, <<"n", "o">>, <<"o", "f", "f">>,
     <<"f", "a", "l", "s", "e">>}

\* the str type in lax mode: only a str is a str
StrValidate(value) ==
    IF value.t = "str" THEN [ok |-> TRUE, value |-> value]
    ELSE [ok |-> FALSE, type |-> "string_type"]

\* the bool type in lax mode
BoolValidate(value) ==
    CASE value.t = "bool" -> [ok |-> TRUE, value |-> value]
      [] value.t = "int" /\ value.v \in {0, 1} ->
            [ok |-> TRUE, value |-> PyBool(value.v = 1)]
      [] value.t = "float" /\ value.v[1] \in {0, 1} /\ value.v[2] = 0 ->
            [ok |-> TRUE, value |-> PyBool(value.v[1] = 1)]
      [] value.t = "str" /\ LowerStr(value.v) \in TrueStrings ->
            [ok |-> TRUE, value |-> PyBool(TRUE)]
      [] value.t = "str" /\ LowerStr(value.v) \in FalseStrings ->
            [ok |-> TRUE, value |-> PyBool(FALSE)]
      [] value.t = "None" -> [ok |-> FALSE, type |-> "bool_type"]
      [] OTHER -> [ok |-> FALSE, type |-> "bool_parsing"]

\* the max_length constraint of a str field
LengthValidate(f, r) ==
    IF r.ok /\ f.max_length # None /\ Len(r.value.v) > f.max_length.v
    THEN [ok |-> FALSE, type |-> "string_too_long"]
    ELSE r

\* AliasChoices(field_name, widget_name): the first choice the input holds
HasKey(f, o) == f.alias[1] \in DOMAIN o \/ f.alias[2] \in DOMAIN o

LookupKey(f, o) == IF f.alias[1] \in DOMAIN o THEN f.alias[1] ELSE f.alias[2]

\* One field of the type against the input: a missing key takes the default
\* unvalidated; a present value runs the "before" validator, then the type,
\* then the constraint.
ValidateField(model, f, o) ==
    IF ~HasKey(f, o) THEN [ok |-> TRUE, value |-> f.default]
    ELSE LET raw == o[LookupKey(f, o)]
             pre == IF f.name \in model.validators THEN any_to_str(raw)
                    ELSE raw
         IN  IF f.type = "str" THEN LengthValidate(f, StrValidate(pre))
             ELSE BoolValidate(pre)

FailingFields(model, o) ==
    {i \in DOMAIN model.fields : ~ValidateField(model, model.fields[i], o).ok}

ErrorOf(model, i, o) ==
    [field |-> model.fields[i].name,
     loc |-> LookupKey(model.fields[i], o),
     type |-> ValidateField(model, model.fields[i], o).type]

ValidateModel_first_error_only(model, o) ==
    IF FailingFields(model, o) = {}
    THEN [ok |-> TRUE,
          values |-> [n \in {model.fields[i].name : i \in DOMAIN model.fields}
                        |-> LET i == CHOOSE j \in DOMAIN model.fields :
                                        model.fields[j].name = n
                            IN  ValidateField(model, model.fields[i], o).value]]
    ELSE [ok |-> FALSE,
          errors |-> {ErrorOf(model, i, o) :
                        i \in {j \in FailingFields(model, o) :
                                 \A k \in FailingFields(model, o) : j <= k}}]

\* <synthesized type>.model_validate(obj): the instance, or one
\* ValidationError carrying the errors of all the fields that failed
ValidateModel(model, o) ==
    IF FailingFields(model, o) = {}
    THEN [ok |-> TRUE,
          values |-> [n \in {model.fields[i].name : i \in DOMAIN model.fields}
                        |-> LET i == CHOOSE j \in DOMAIN model.fields :
                                        model.fields[j].name = n
                            IN  ValidateField(model, model.fields[i], o).value]]
    ELSE [ok |-> FALSE,
          errors |-> {ErrorOf(model, i, o) : i \in FailingFields(model, o)}]

\* form.model_dump(by_alias=True): a dict keyed by serialization alias; a
\* later field overwrites an earlier one under the same key
model_dump_by_alias(model, values) ==
    [a \in {model.fields[i].serialization_alias : i \in DOMAIN model.fields}
        |-> LET i == CHOOSE j \in DOMAIN model.fields :
                        /\ model.fields[j].serialization_alias = a
                        /\ \A k \in DOMAIN model.fields :
                              model.fields[k].serialization_alias = a => k <= j
            IN  values[model.fields[i].name]]

----------------------------------------------------------------------------
(* The PDF writer adapter and the output file *)

NoFile == [exists |-> FALSE, data |-> <<>>]

EmptyFile == [exists |-> TRUE, data |-> <<>>]

\* filled.read(): the bytes of the template filled with the values
FilledBytes(values) == <<"%PDF", values>>

AdapterOutcomes == {"ok", "load_raises", "fill_raises", "read_raises"}

AdapterError(at) == [type |-> "AdapterError", at |-> at]

generate_pdf_opens_first(file, model, values, outcome) ==
    CASE outcome = "load_raises" ->
            [file |-> EmptyFile, raised |-> AdapterError("load")]
      [] outcome = "fill_raises" ->
            [file |-> EmptyFile, raised |-> AdapterError("fill")]
      [] outcome = "read_raises" ->
            [file |-> EmptyFile, raised |-> AdapterError("read")]
      [] OTHER ->
            [file |-> [exists |-> TRUE,
                       data |-> FilledBytes(model_dump_by_alias(model, values))],
             raised |-> NoExc]

\* PdfForm.generate_pdf: PdfWrapper(...) and fill(...) run before the output
\* is opened; open("wb+") creates or truncates it before filled.read() runs
generate_pdf(file, model, values, outcome) ==
    CASE outcome = "load_raises" ->
            [file |-> file, raised |-> AdapterError("load")]
      [] outcome = "fill_raises" ->
            [file |-> file, raised |-> AdapterError("fill")]
      [] outcome = "read_raises" ->
            [file |-> EmptyFile, raised |-> AdapterError("read")]
      [] OTHER ->
            [file |-> [exists |-> TRUE,
                       data |-> FilledBytes(model_dump_by_alias(model, values))],
             raised |-> NoExc]

----------------------------------------------------------------------------
(* Inputs *)

FieldNames == {"name", "ssn"}

WidgetOf(n) ==
    CASE n = "name" -> "f1_1[0]"
      [] n = "ssn" -> "f1_2[0]"
      [] OTHER -> "c1_1[0]"

Arg(n, wt, ml, dv) ==
    [field_name |-> n, widget_type |-> wt, max_length |-> ml,
     widget_name |-> WidgetOf(n), default_value |-> dv]

\* the constructor arguments the forms are drawn from ("button" is no
\* widget type: that descriptor is never constructed)
RawArgs ==
    {Arg("name", "text", None, None),
     Arg("name", "text", PyInt(MaxLen), None),
     Arg("ssn", "text", PyInt(MaxLen), None),
     Arg("ssn", "checkbox", None, None),
     Arg("name", "checkbox", None, PyString(<<"x">>)),
     Arg("ssn", "dropdown", None, None),
     Arg("name", "radio", None, None),
     Arg("ssn", "signature", None, None),
     Arg("name", "button", None, None)}

Descriptors ==
    {FieldMapperInit(a).value : a \in {b \in RawArgs : FieldMapperInit(b).ok}}

Forms == UNION {[1..n -> Descriptors] : n \in 1..MaxFields}

\* the form of tests/models.py, first three fields
Fixture ==
    <<FieldMapperInit(Arg("name", "text", None, None)).value,
      FieldMapperInit(Arg("ssn", "text", None, None)).value,
      FieldMapperInit(Arg("exceptions", "checkbox", None, None)).value>>

RECURSIVE Pow10(_)
Pow10(n) == IF n = 0 THEN 1 ELSE 10 * Pow10(n - 1)

LongString == PyString([i \in 1..(MaxLen + 1) |-> "a"])

Values ==
    {None, PyBool(TRUE), PyFloat(1, 5), PyInt(Pow10(MaxLen)),
     PyString(<<"a", "b">>), LongString}

JohnDoe == PyString(<<"J", "o", "h", "n", " ", "D", "o", "e">>)

Ssn == PyString(<<"1", "2", "3", "-", "4", "5", "-", "6", "7", "8", "9">>)

ExampleInput ==
    ("name" :> JohnDoe) @@ ("ssn" :> Ssn) @@ ("exceptions" :> PyBool(TRUE))

Short == PyString(<<"a", "b">>)

\* mappings keyed by logical name, by widget name, and by both
Inputs ==
    {("name" :> v) @@ ("ssn" :> v) : v \in Values}
    \cup {("name" :> v) : v \in Values}
    \cup {<<>>,
          ("ssn" :> LongString),
          ("ssn" :> PyBool(TRUE)),
          ("name" :> LongString) @@ ("ssn" :> Short),
          ("name" :> Short) @@ ("ssn" :> PyBool(TRUE)),
          ("f1_1[0]" :> Short),
          ("f1_2[0]" :> PyBool(TRUE)),
          ("f1_1[0]" :> LongString) @@ ("f1_2[0]" :> LongString),
          ("f1_1[0]" :> PyFloat(1, 5)) @@ ("ssn" :> PyInt(1)),
          ("name" :> Short) @@ ("f1_1[0]" :> LongString),
          ExampleInput}

SmallInputs ==
    {ExampleInput, <<>>, ("name" :> LongString), ("f1_1[0]" :> PyFloat(1, 5))}

----------------------------------------------------------------------------
(* The state machine *)

InitWith(fs) ==
    /\ fields = fs
    /\ form_model = NoModel
    /\ synthCount = 0
    /\ op = "init"
    /\ obj = <<>>
    /\ inst = NoInst
    /\ raised = NoExc
    /\ outFile = NoFile

\* after PdfForm(name=..., fields=[...], blank_pdf_path=...)
Init == \E fs \in Forms \cup {Fixture} : InitWith(fs)

InitFixture == InitWith(Fixture)

\* form.generate_model()
GenerateModel ==
    LET r == generate_model(fields, form_model, synthCount)
    IN  /\ form_model' = r.form_model
        /\ synthCount' = r.synthCount
        /\ raised' = r.raised
        /\ op' = "generate_model"
        /\ UNCHANGED <<fields, obj, inst, outFile>>

\* form.form
FormProperty ==
    LET r == form(fields, form_model, synthCount)
    IN  /\ form_model' = r.form_model
        /\ synthCount' = r.synthCount
        /\ raised' = r.raised
        /\ op' = "form"
        /\ UNCHANGED <<fields, obj, inst, outFile>>

\* form.model_validate(o)
ModelValidate(o) ==
    LET r == form(fields, form_model, synthCount)
        v == ValidateModel(r.form_model, o)
    IN  /\ form_model' = r.form_model
        /\ synthCount' = r.synthCount
        /\ obj' = o
        /\ op' = "model_validate"
        /\ IF r.raised.type # "None"
           THEN raised' = r.raised /\ inst' = NoInst
           ELSE IF v.ok
                THEN /\ raised' = NoExc
                     /\ inst' = [kind |-> "instance", values |-> v.values]
                ELSE /\ raised' = [type |-> "ValidationError",
                                   errors |-> v.errors]
                     /\ inst' = NoInst
        /\ UNCHANGED <<fields, outFile>>

\* form.generate_pdf(form=inst, output_path=...), the adapter behaving as
\* `outcome` says
GeneratePdf(outcome) ==
    /\ inst.kind = "instance"
    /\ LET r == generate_pdf(outFile, form_model, inst.values, outcome)
       IN  /\ outFile' = r.file
           /\ raised' = r.raised
    /\ op' = "generate_pdf"
    /\ UNCHANGED <<fields, form_model, synthCount, obj, inst>>

\* form.fields[i].widget_type = wt: a FieldMapper is a plain mutable model
\* and assignment is not validated
SetWidgetType(i, wt) ==
    /\ i \in DOMAIN fields
    /\ fields' = [fields EXCEPT ![i].widget_type = wt]
    /\ op' = "setattr"
    /\ raised' = NoExc
    /\ UNCHANGED <<form_model, synthCount, obj, inst, outFile>>

Next ==
    \/ GenerateModel
    \/ FormProperty
    \/ \E o \in Inputs : ModelValidate(o)

Spec == Init /\ [][Next]_vars

NextMutate ==
    \/ GenerateModel
    \/ FormProperty
    \/ \E o \in SmallInputs : ModelValidate(o)
    \/ \E i \in 1..Len(Fixture), wt \in _VALID_TYPES : SetWidgetType(i, wt)

SpecMutate == InitFixture /\ [][NextMutate]_vars

NextPdf ==
    \/ \E o \in Inputs : ModelValidate(o)
    \/ \E outcome \in AdapterOutcomes : GeneratePdf(outcome)

SpecPdf == InitFixture /\ [][NextPdf]_vars

----------------------------------------------------------------------------
(* Vocabulary of the properties, stated on the descriptors *)

\* the descriptor that defines the field of its name (the last one wins)
Effective(i) ==
    \A j \in DOMAIN fields :
        j > i => fields[j].field_name # fields[i].field_name

EffectiveOf(type) ==
    {fields[i] : i \in {j \in DOMAIN fields :
                          Effective(j) /\ fields[j].widget_type = type}}

Present(d, o) == d.field_name \in DOMAIN o \/ d.widget_name \in DOMAIN o

Given(d, o) ==
    IF d.field_name \in DOMAIN o THEN o[d.field_name] ELSE o[d.widget_name]

IsNumber(x) == x.t \in {"int", "float"}

\* a model_validate call that got as far as binding
Bound == op = "model_validate" /\ form_model.kind = "type"

Rejected(d) ==
    /\ raised.type = "ValidationError"
    /\ \E e \in raised.errors :
          e.field = d.field_name /\ e.loc \in {d.field_name, d.widget_name}

RejectedFor(d, reason) ==
    /\ raised.type = "ValidationError"
    /\ \E e \in raised.errors : e.field = d.field_name /\ e.type = reason

TooLong(d, s) == d.max_length # None /\ Len(s) > d.max_length.v

----------------------------------------------------------------------------
(* C1 *)

\* the input gives every text field a str within its length and every
\* checkbox a bool, under either key
WellTyped(o) ==
    /\ \A d \in EffectiveOf("text") :
          Present(d, o) => IsStr(Given(d, o)) /\ ~TooLong(d, Given(d, o).v)
    /\ \A d \in EffectiveOf("checkbox") :
          Present(d, o) => Given(d, o).t = "bool"

ExampleDump ==
    ("f1_1[0]" :> JohnDoe) @@ ("f1_2[0]" :> Ssn) @@ ("c1_1[0]" :> PyBool(TRUE))

\* C1: a value keyed by the logical field_name, or by the widget_name, is
\* accepted and bound unchanged, and the instance dumped by alias is keyed by
\* exactly the widget names and holds the bound values; the example form
\* bound to the example input dumps to exactly the example mapping.
C1_AliasRoundTrip ==
    (Bound /\ WellTyped(obj)) =>
        /\ inst.kind = "instance"
        /\ \A d \in EffectiveOf("text") \cup EffectiveOf("checkbox") :
              /\ d.field_name \in DOMAIN obj =>
                    inst.values[d.field_name] = obj[d.field_name]
              /\ (d.field_name \notin DOMAIN obj /\ d.widget_name \in DOMAIN obj)
                    => inst.values[d.field_name] = obj[d.widget_name]
        /\ LET dump == model_dump_by_alias(form_model, inst.values)
           IN  /\ DOMAIN dump = {fields[i].widget_name : i \in DOMAIN fields}
               /\ \A d \in EffectiveOf("text") \cup EffectiveOf("checkbox") :
                     dump[d.widget_name] = inst.values[d.field_name]
               /\ (fields = Fixture /\ obj = ExampleInput) => dump = ExampleDump

C1_Witness ==
    /\ Bound
    /\ fields = Fixture
    /\ obj = ExampleInput
    /\ inst.kind = "instance"
    /\ model_dump_by_alias(form_model, inst.values) = ExampleDump

\* the same for a value keyed by the widget name alone
C1_WitnessByWidget ==
    /\ Bound
    /\ obj = ("f1_1[0]" :> Short)
    /\ inst.kind = "instance"
    /\ inst.values["name"] = Short

----------------------------------------------------------------------------
(* C2 *)

NumericTextInputs ==
    {d \in EffectiveOf("text") : Present(d, obj) /\ IsNumber(Given(d, obj))}

\* C2 as stated: binding a numeric value to a text field always succeeds and
\* the instance holds the number's string form.
C2_NumericAlwaysBinds ==
    Bound =>
        \A d \in NumericTextInputs :
            /\ ~Rejected(d)
            /\ inst.kind = "instance" =>
                  inst.values[d.field_name] = PyString(str(Given(d, obj)))

\* C2 amended: a numeric value on a text field is coerced to its string form
\* before type validation, so it is never rejected for its type; it is
\* rejected exactly when that string form is longer than the field's
\* max_length, and otherwise the instance holds the string form.
C2_NumericCoerced ==
    Bound =>
        \A d \in NumericTextInputs :
            /\ ~RejectedFor(d, "string_type")
            /\ Rejected(d) <=> TooLong(d, str(Given(d, obj)))
            /\ inst.kind = "instance" =>
                  inst.values[d.field_name] = PyString(str(Given(d, obj)))

C2_Witness ==
    /\ Bound
    /\ inst.kind = "instance"
    /\ \E d \in NumericTextInputs :
          /\ Given(d, obj) = PyFloat(1, 5)
          /\ inst.values[d.field_name] = PyString(<<"1", ".", "5">>)

----------------------------------------------------------------------------
(* C3 *)

\* C3 as stated: a text field with no default_value whose input is None, or
\* whose key the input omits, is bound to the empty string.
C3_AbsentBindsEmpty ==
    (Bound /\ inst.kind = "instance") =>
        \A d \in EffectiveOf("text") :
            (d.default_value = None
                /\ (Present(d, obj) => Given(d, obj) = None))
            => inst.values[d.field_name] = PyString(<<>>)

----------------------------------------------------------------------------
(* C4 *)

Coerced(x) == IF x = None THEN <<>> ELSE str(x)

\* C4: on a text field with max_length, a value whose length after string
\* coercion exceeds max_length is rejected with an error citing the field,
\* and a value within max_length is not rejected for its length.
C4_MaxLength ==
    Bound =>
        \A d \in EffectiveOf("text") :
            (d.max_length # None /\ Present(d, obj)) =>
                IF Len(Coerced(Given(d, obj))) > d.max_length.v
                THEN inst.kind = "None" /\ Rejected(d)
                ELSE ~RejectedFor(d, "string_too_long")

C4_Witness ==
    /\ Bound
    /\ \E d \in EffectiveOf("text") :
          /\ d.max_length = PyInt(MaxLen)
          /\ Present(d, obj)
          /\ Given(d, obj) = LongString
          /\ RejectedFor(d, "string_too_long")

----------------------------------------------------------------------------
(* C5, C6 *)

BadCheckbox(d) == d.widget_type = "checkbox" /\ IsStr(d.default_value)

Unsupported(d) == d.widget_type \in {"radio", "dropdown", "signature"}

Offending(i) == BadCheckbox(fields[i]) \/ Unsupported(fields[i])

\* the descriptor a synthesis meets first among those it cannot map
FirstOffender ==
    CHOOSE i \in DOMAIN fields :
        Offending(i) /\ \A j \in 1..(i - 1) : ~Offending(j)

SynthesisAttempted == op \in {"generate_model", "form", "model_validate"}

----------------------------------------------------------------------------
(* C9 *)

\* any_to_str runs before the type of a field some text descriptor names
Coercing(d) ==
    \E j \in DOMAIN fields :
        fields[j].field_name = d.field_name /\ fields[j].widget_type = "text"

BoolStrings == TrueStrings \cup FalseStrings

AcceptedAsBool(x) ==
    \/ x.t = "bool"
    \/ x.t = "int" /\ x.v \in {0, 1}
    \/ x.t = "float" /\ x.v \in {<<0, 0>>, <<1, 0>>}
    \/ x.t = "str" /\ LowerStr(x.v) \in BoolStrings

\* the descriptors whose input value their field cannot hold
ShouldFail(o) ==
    {d \in EffectiveOf("text") :
        Present(d, o) /\ TooLong(d, Coerced(Given(d, o)))}
    \cup
    {d \in EffectiveOf("checkbox") :
        /\ Present(d, o)
        /\ IF Coercing(d)
           THEN ~AcceptedAsBool(PyString(Coerced(Given(d, o))))
           ELSE ~AcceptedAsBool(Given(d, o))}

Reasons == {"string_type", "string_too_long", "bool_type", "bool_parsing"}

\* C9: binding raises one ValidationError exactly when some field fails, and
\* it lists every failing field, each with its name and a reason: the set of
\* fields reported is the set of fields that fail.
C9_AllFailuresReported ==
    Bound =>
        IF ShouldFail(obj) = {}
        THEN raised.type = "None" /\ inst.kind = "instance"
        ELSE /\ raised.type = "ValidationError"
             /\ inst.kind = "None"
             /\ {e.field : e \in raised.errors}
                   = {d.field_name : d \in ShouldFail(obj)}
             /\ \A e \in raised.errors : e.type \in Reasons
             /\ \A d \in ShouldFail(obj) : Rejected(d)

C9_Witness ==
    /\ Bound
    /\ Cardinality(ShouldFail(obj)) = 2
    /\ raised.type = "ValidationError"
    /\ Cardinality({e.field : e \in raised.errors}) = 2

----------------------------------------------------------------------------
(* C10 *)

Consistent(d) ==
    \/ d.widget_type = "text" /\ d.default_value.t \in {"None", "str"}
    \/ d.widget_type = "checkbox" /\ d.default_value.t \in {"None", "bool"}

UniqueNames ==
    \A i, j \in DOMAIN fields :
        fields[i].field_name = fields[j].field_name => i = j

----------------------------------------------------------------------------
(* C7 *)

\* C7: for one PdfForm the type is synthesized at most once; once a type is
\* cached, every later generate_model, form and model_validate call keeps
\* and uses that same type, whatever has become of the descriptors.
C7_SynthesizedOnce ==
    /\ [](/\ synthCount <= 1
          /\ form_model.kind = "type" =>
                form_model.id = 1 /\ synthCount = 1)
    /\ [][form_model.kind = "type" => form_model' = form_model]_vars

C7_Witness ==
    /\ op = "model_validate"
    /\ fields[1].widget_type = "dropdown"
    /\ synthCount = 1
    /\ form_model.kind = "type"
    /\ form_model.fields[1].type = "str"
    /\ inst.kind = "instance"

----------------------------------------------------------------------------
(* C8 *)

\* C8 as stated: after generate_pdf the output path holds a non-empty file
\* when the adapter did not raise, and no file when it raised.
C8_NoFileWhenAdapterRaises ==
    op = "generate_pdf" =>
        IF raised.type = "None"
        THEN outFile.exists /\ outFile.data # <<>>
        ELSE ~outFile.exists

\* C8 amended: generate_pdf leaves a non-empty file, the adapter's bytes for
\* the instance dumped by alias, when the adapter does not raise; when the
\* adapter raises while loading the template or in fill, the output path is
\* left exactly as it was before the call; when it raises while the filled
\* stream is read, the output has already been opened and an empty file is
\* left at the path.
C8_OutputFile ==
    [][op' = "generate_pdf" =>
          IF raised'.type = "None"
          THEN /\ outFile'.exists
               /\ outFile'.data # <<>>
               /\ outFile'.data[2] = model_dump_by_alias(form_model, inst.values)
          ELSE IF raised'.at \in {"load", "fill"}
               THEN outFile' = outFile
               ELSE outFile' = EmptyFile]_vars

C8_Witness ==
    /\ op = "generate_pdf"
    /\ raised.type = "AdapterError"
    /\ raised.at = "read"
    /\ outFile = EmptyFile

=============================================================================
